---- MODULE Spec2Model ----
(***************************************************************************)
(* BLE Uart link: the Central (src/BLEUartCentral.py, class BLECentral)    *)
(* and the Peripheral (src/BLEUartPeripheral.py, class BLEperipheral).     *)
(*                                                                         *)
(* Every method and every branch of the two _irq dispatchers is an         *)
(* operator that maps the object's fields and the call's arguments to the  *)
(* new fields, the transport requests issued, the callbacks invoked and    *)
(* the value returned.  The actions apply these operators to inputs drawn  *)
(* from small sets.                                                        *)
(*                                                                         *)
(* Encoding of Python values:                                              *)
(*   None in an integer slot (handle, address, address type, callback)     *)
(*        is NONE; in a string slot it is NoneStr;                         *)
(*   a str / bytes value is a sequence of one-character strings;           *)
(*   a 6-byte MAC address is a positive integer 1..MaxAddr (never empty,   *)
(*        hence always truthy);                                            *)
(*   a callable is a positive integer (always truthy).                     *)
(***************************************************************************)
EXTENDS Integers, Sequences, FiniteSets, TLC

VARIABLES
    central,    \* fields of the BLECentral object
    periph,     \* fields of the BLEperipheral object
    last,       \* name of the method called or event handled by the last step
    req,        \* transport requests issued by the last step, in order
    calls,      \* application callbacks invoked by the last step, in order
    ret,        \* value returned by the last step
    sess,       \* history of the Central's current session (observation only)
    cycle,      \* history of the Central's current scan cycle (observation only)
    stream,     \* history of the Peripheral's byte stream (observation only)
    link,       \* the transport (and, end to end, the two applications)
    Central_ACK_required,   \* module-level flag of src/BLEUartCentral.py
    wait        \* the call of wait_for_connection in progress, if any

vars == <<central, periph, last, req, calls, ret, sess, cycle, stream, link,
          Central_ACK_required, wait>>

----------------------------------------------------------------------------
(* Bounds of the model *)

MaxHandle == 1      \* session handles are 0..MaxHandle
MaxAttr == 2        \* GATT attribute handles are 1..MaxAttr (0 is reserved)
MaxAddr == 2        \* MAC addresses are 1..MaxAddr
MaxBytes == 3       \* total bytes accepted by the Peripheral in one run
MaxRead == 2        \* largest explicit read size
MaxWait == 2        \* longest wait_for_connection timeout, in polls

----------------------------------------------------------------------------
(* Python values *)

NONE == -1
NoneStr == <<>>

Truthy(x) == x # NONE /\ x # 0

Min(a, b) == IF a < b THEN a ELSE b

\* s[0:n] for n >= 0
Slice0(s, n) == SubSeq(s, 1, Min(n, Len(s)))

\* s[n:] for n >= 0
SliceFrom(s, n) == SubSeq(s, Min(n, Len(s)) + 1, Len(s))

----------------------------------------------------------------------------
(* Constants of src/BLEUartCentral.py *)

TARGET_PERIPHERAL_NAME == <<"I", "D", "0", "0", "0", "0", "0", "1">>
NBCHAR == 8
ADDR_TYPE_PUBLIC == 0
ADDR_TYPE_RANDOM == 1
ADV_IND == 0
ADV_DIRECT_IND == 1
ADV_SCAN_IND == 2
UART_SERVICE_UUID == "6E400001-B5A3-F393-E0A9-E50E24DCCA9E"
UART_RX_CHAR_UUID == "6E400002-B5A3-F393-E0A9-E50E24DCCA9E"
UART_TX_CHAR_UUID == "6E400003-B5A3-F393-E0A9-E50E24DCCA9E"
OTHER_UUID == "0000180F-0000-1000-8000-00805F9B34FB"

(* Input domains *)

ConnHandles == 0..MaxHandle
AttrHandles == 1..MaxAttr
Addrs == 1..MaxAddr
AddrTypes == {ADDR_TYPE_PUBLIC, ADDR_TYPE_RANDOM}
ScanCallbacks == {1}
ConnCallbacks == {2}
NotifyCallbacks == {3}

\* the decoded content of an advertising payload: decode_name gives name
\* (the empty string when the payload has none), decode_services gives services
Adv(adv_type, name, services) ==
    [adv_type |-> adv_type, adv_data |-> [name |-> name, services |-> services]]

\* advertisements received while scanning: the target; a longer name with the
\* same first 8 characters; a name that differs in its 8th character; a
\* payload without name; the target name without the Uart service; the target
\* in a non-connectable advertisement
Adverts ==
    { Adv(ADV_IND, TARGET_PERIPHERAL_NAME, {UART_SERVICE_UUID}),
      Adv(ADV_DIRECT_IND, TARGET_PERIPHERAL_NAME \o <<"b">>, {UART_SERVICE_UUID}),
      Adv(ADV_IND, <<"I", "D", "0", "0", "0", "0", "0", "2">>, {UART_SERVICE_UUID}),
      Adv(ADV_IND, <<>>, {UART_SERVICE_UUID}),
      Adv(ADV_IND, TARGET_PERIPHERAL_NAME, {OTHER_UUID}),
      Adv(ADV_SCAN_IND, TARGET_PERIPHERAL_NAME, {UART_SERVICE_UUID}) }

\* payloads carried by notify and write
Payloads == { <<"2", "3">>, <<"4">> }

----------------------------------------------------------------------------
(* Transport requests and callback invocations *)

Request(fn, args, raised) == [fn |-> fn, args |-> args, raised |-> raised]

Invoke(cb, args) == [cb |-> cb, args |-> args]

\* a callback call together with the object's fields at the time of the call
InvokeAt(cb, args, at) == [cb |-> cb, args |-> args, at |-> at]

\* the outcome of one method call or one _irq dispatch
Out(c, r, k, v) == [c |-> c, req |-> r, calls |-> k, ret |-> v]

----------------------------------------------------------------------------
(* BLECentral *)

BLECentral_reset ==
    [ name |-> NoneStr, addr_type |-> NONE, addr |-> NONE,
      scan_callback |-> NONE, conn_callback |-> NONE, read_callback |-> NONE,
      notify_callback |-> NONE,
      conn_handle |-> NONE, start_handle |-> NONE, end_handle |-> NONE,
      tx_handle |-> NONE, rx_handle |-> NONE ]

\* decode_name(adv_data) or "?"
NameOrUnknown(adv_data) ==
    IF adv_data.name # <<>> THEN adv_data.name ELSE <<"?">>

BLECentral_irq_SCAN_RESULT(c, addr_type, addr, adv_type, rssi, adv_data) ==
    IF adv_type \in {ADV_IND, ADV_DIRECT_IND}
       /\ UART_SERVICE_UUID \in adv_data.services
    THEN LET c1 == [c EXCEPT !.name = NameOrUnknown(adv_data)]
         IN  IF Slice0(c1.name, NBCHAR) = Slice0(TARGET_PERIPHERAL_NAME, NBCHAR)
             THEN Out([c1 EXCEPT !.addr_type = addr_type,
                                 !.addr = addr,
                                 !.name = NameOrUnknown(adv_data)],
                      << Request("gap_scan", <<NONE>>, FALSE) >>, <<>>, NONE)
             ELSE Out(c1, <<>>, <<>>, NONE)
    ELSE Out(c, <<>>, <<>>, NONE)

BLECentral_irq_SCAN_DONE(c) ==
    IF Truthy(c.scan_callback)
    THEN IF c.addr # NONE
         THEN Out([c EXCEPT !.scan_callback = NONE], <<>>,
                  << Invoke(c.scan_callback, <<c.addr_type, c.addr, c.name>>) >>,
                  NONE)
         ELSE Out(c, <<>>,
                  << Invoke(c.scan_callback, <<NONE, NONE, NoneStr>>) >>, NONE)
    ELSE Out(c, <<>>, <<>>, NONE)

\* variant: the connect event is matched on the address alone
BLECentral_irq_CONNECT_any_type(c, conn_handle, addr_type, addr) ==
    IF addr = c.addr
    THEN Out([c EXCEPT !.conn_handle = conn_handle],
             << Request("gattc_exchange_mtu", <<conn_handle>>, FALSE),
                Request("gattc_discover_services", <<conn_handle>>, FALSE) >>,
             <<>>, NONE)
    ELSE Out(c, <<>>, <<>>, NONE)

BLECentral_irq_CONNECT(c, conn_handle, addr_type, addr) ==
    IF addr_type = c.addr_type /\ addr = c.addr
    THEN Out([c EXCEPT !.conn_handle = conn_handle],
             << Request("gattc_exchange_mtu", <<conn_handle>>, FALSE),
                Request("gattc_discover_services", <<conn_handle>>, FALSE) >>,
             <<>>, NONE)
    ELSE Out(c, <<>>, <<>>, NONE)

\* variant: a disconnect event clears the session handle alone
BLECentral_irq_DISCONNECT_handle_only(c, conn_handle, addr_type, addr) ==
    IF conn_handle = c.conn_handle
    THEN Out([c EXCEPT !.conn_handle = NONE], <<>>, <<>>, NONE)
    ELSE Out(c, <<>>, <<>>, NONE)

BLECentral_irq_DISCONNECT(c, conn_handle, addr_type, addr) ==
    IF conn_handle = c.conn_handle
    THEN Out(BLECentral_reset, <<>>, <<>>, NONE)
    ELSE Out(c, <<>>, <<>>, NONE)

BLECentral_irq_SERVICE_RESULT(c, conn_handle, start_handle, end_handle, uuid) ==
    IF conn_handle = c.conn_handle /\ uuid = UART_SERVICE_UUID
    THEN Out([c EXCEPT !.start_handle = start_handle, !.end_handle = end_handle],
             <<>>, <<>>, NONE)
    ELSE Out(c, <<>>, <<>>, NONE)

BLECentral_irq_SERVICE_DONE(c) ==
    IF Truthy(c.start_handle) /\ Truthy(c.end_handle)
    THEN Out(c, << Request("gattc_discover_characteristics",
                           <<c.conn_handle, c.start_handle, c.end_handle>>,
                           FALSE) >>,
             <<>>, NONE)
    ELSE Out(c, <<>>, <<>>, NONE)

BLECentral_irq_CHARACTERISTIC_RESULT(c, conn_handle, def_handle, value_handle, properties, uuid) ==
    LET c1 == IF conn_handle = c.conn_handle /\ uuid = UART_RX_CHAR_UUID
              THEN [c EXCEPT !.rx_handle = value_handle] ELSE c
        c2 == IF conn_handle = c1.conn_handle /\ uuid = UART_TX_CHAR_UUID
              THEN [c1 EXCEPT !.tx_handle = value_handle] ELSE c1
    IN  Out(c2, <<>>, <<>>, NONE)

BLECentral_irq_CHARACTERISTIC_DONE(c) ==
    IF c.tx_handle # NONE /\ c.rx_handle # NONE
    THEN IF Truthy(c.conn_callback)
         THEN Out(c, <<>>, << Invoke(c.conn_callback, <<>>) >>, NONE)
         ELSE Out(c, <<>>, <<>>, NONE)
    ELSE Out(c, <<>>, <<>>, NONE)

BLECentral_irq_WRITE_DONE(c, conn_handle, value_handle, status) ==
    Out(c, <<>>, <<>>, NONE)

\* variant: notifications are matched against the RX handle
BLECentral_irq_NOTIFY_on_rx(c, conn_handle, value_handle, notify_data) ==
    IF conn_handle = c.conn_handle /\ value_handle = c.rx_handle
    THEN IF Truthy(c.notify_callback)
         THEN Out(c, <<>>, << Invoke(c.notify_callback, <<notify_data>>) >>, NONE)
         ELSE Out(c, <<>>, <<>>, NONE)
    ELSE Out(c, <<>>, <<>>, NONE)

BLECentral_irq_NOTIFY(c, conn_handle, value_handle, notify_data) ==
    IF conn_handle = c.conn_handle /\ value_handle = c.tx_handle
    THEN IF Truthy(c.notify_callback)
         THEN Out(c, <<>>, << Invoke(c.notify_callback, <<notify_data>>) >>, NONE)
         ELSE Out(c, <<>>, <<>>, NONE)
    ELSE Out(c, <<>>, <<>>, NONE)

BLECentral_irq_MTU_EXCHANGED(c) ==
    Out(c, <<>>, <<>>, NONE)

BLECentral_is_connected(c) ==
    c.conn_handle # NONE /\ c.tx_handle # NONE /\ c.rx_handle # NONE

\* raised: the transport raised OSError inside the try block
BLECentral_scan(c, callback, raised) ==
    Out([c EXCEPT !.addr_type = NONE, !.addr = NONE, !.scan_callback = callback],
        << Request("gap_scan", <<2000, 30000, 30000, TRUE>>, raised) >>,
        <<>>, NONE)

\* variant: each explicit argument replaces its cached field on its own
BLECentral_connect_each_arg(c, addr_type, addr, callback, raised) ==
    LET c1 == [c EXCEPT
                 !.addr_type = IF addr_type # NONE THEN addr_type ELSE @,
                 !.addr = IF addr # NONE THEN addr ELSE @]
        c2 == [c1 EXCEPT !.conn_callback = callback]
    IN  IF c2.addr_type = NONE \/ c2.addr = NONE
        THEN Out(c2, <<>>, <<>>, FALSE)
        ELSE Out(c2, << Request("gap_connect", <<c2.addr_type, c2.addr>>, raised) >>,
                 <<>>, TRUE)

BLECentral_connect(c, addr_type, addr, callback, raised) ==
    LET c1 == IF addr_type # NONE /\ addr # NONE
              THEN [c EXCEPT !.addr_type = addr_type, !.addr = addr]
              ELSE c
        c2 == [c1 EXCEPT !.conn_callback = callback]
    IN  IF c2.addr_type = NONE \/ c2.addr = NONE
        THEN Out(c2, <<>>, <<>>, FALSE)
        ELSE Out(c2, << Request("gap_connect", <<c2.addr_type, c2.addr>>, raised) >>,
                 <<>>, TRUE)

BLECentral_disconnect(c, raised) ==
    IF ~Truthy(c.conn_handle)
    THEN Out(c, <<>>, <<>>, NONE)
    ELSE Out(BLECentral_reset,
             << Request("gap_disconnect", <<c.conn_handle>>, raised) >>,
             <<>>, NONE)

BLECentral_on_notify(c, callback) ==
    Out([c EXCEPT !.notify_callback = callback], <<>>, <<>>, NONE)

T_WAIT == 100

\* the value wait_for_connection returns when its loop is run from elapsed
\* = time.ticks_diff(time.ticks_ms(), t0); every sleep_ms(_T_WAIT) advances
\* elapsed by _T_WAIT
RECURSIVE WaitLoop(_, _)
WaitLoop(elapsed, timeout_ms) ==
    IF elapsed < timeout_ms
    THEN WaitLoop(elapsed + T_WAIT, timeout_ms)
    ELSE FALSE

\* Effect of a function that also reads or writes the module-level flag:
\* ack is the new Central_ACK_required, exc whether OSError left the call
OutG(c, r, k, v, ack, exc) ==
    [c |-> c, req |-> r, calls |-> k, ret |-> v, ack |-> ack, exc |-> exc]

\* variant: the flag is cleared before the connection test
BLECentral_write_clearing_first(c, ack, v, response, raised) ==
    IF ~BLECentral_is_connected(c)
    THEN OutG(c, <<>>, <<>>, NONE, 0, FALSE)
    ELSE LET r == Request("gattc_write",
                          <<c.conn_handle, c.rx_handle, v,
                            IF response THEN 1 ELSE 0>>, raised)
         IN  OutG(c, <<r>>, <<>>, NONE, 0, raised)

\* raised: the transport raised OSError in gattc_write (there is no try block)
BLECentral_write(c, ack, v, response, raised) ==
    IF ~BLECentral_is_connected(c)
    THEN OutG(c, <<>>, <<>>, NONE, ack, FALSE)
    ELSE LET r == Request("gattc_write",
                          <<c.conn_handle, c.rx_handle, v,
                            IF response THEN 1 ELSE 0>>, raised)
         IN  IF raised
             THEN OutG(c, <<r>>, <<>>, NONE, ack, TRUE)
             ELSE OutG(c, <<r>>, <<>>, NONE, 0, FALSE)

\* the module-level receive handler
on_receipt(ack, v) ==
    [ack |-> 1, ret |-> NONE]

----------------------------------------------------------------------------
(* BLEperipheral *)

MY_NAME == <<"I", "D", "0", "0", "0", "0", "0", "1">>
ADVERTISE_INTERVAL_US == 500000
NoHandler == NONE
RxHandlers == {4}

\* advertising_payload(name=name, services=[_UART_UUID])
BLEperipheral_payload == [name |-> MY_NAME, services |-> {UART_SERVICE_UUID}]

\* the fields after __init__; tx_handle and rx_handle are the value handles
\* that gatts_register_services returned
BLEperipheral_init(tx_handle, rx_handle) ==
    [ connections |-> {}, rx_buffer |-> <<>>, handler |-> NoHandler,
      tx_handle |-> tx_handle, rx_handle |-> rx_handle ]

\* the orders in which a for loop can visit the set S
RECURSIVE Orders(_)
Orders(S) ==
    IF S = {} THEN { <<>> }
    ELSE UNION { { <<x>> \o t : t \in Orders(S \ {x}) } : x \in S }

BLEperipheral_advertise(p) ==
    Request("gap_advertise",
            <<ADVERTISE_INTERVAL_US, BLEperipheral_payload, TRUE>>, FALSE)

BLEperipheral_irq_CENTRAL_CONNECT(p, conn_handle) ==
    Out([p EXCEPT !.connections = @ \cup {conn_handle}], <<>>, <<>>, NONE)

\* variant: advertising restarts only when the handle was registered
BLEperipheral_irq_CENTRAL_DISCONNECT_if_known(p, conn_handle) ==
    IF conn_handle \in p.connections
    THEN LET p1 == [p EXCEPT !.connections = @ \ {conn_handle}]
         IN  Out(p1, << BLEperipheral_advertise(p1) >>, <<>>, NONE)
    ELSE Out(p, <<>>, <<>>, NONE)

BLEperipheral_irq_CENTRAL_DISCONNECT(p, conn_handle) ==
    LET p1 == IF conn_handle \in p.connections
              THEN [p EXCEPT !.connections = @ \ {conn_handle}]
              ELSE p
    IN  Out(p1, << BLEperipheral_advertise(p1) >>, <<>>, NONE)

\* variant: an inbound write replaces the buffer instead of extending it
BLEperipheral_irq_GATTS_WRITE_replacing(p, conn_handle, value_handle, value) ==
    IF conn_handle \in p.connections /\ value_handle = p.rx_handle
    THEN LET p1 == [p EXCEPT !.rx_buffer = value]
         IN  Out(p1,
                 << Request("gatts_read", <<p.rx_handle>>, FALSE) >>,
                 IF Truthy(p.handler)
                 THEN << InvokeAt(p.handler, <<>>, p1) >> ELSE <<>>,
                 NONE)
    ELSE Out(p, <<>>, <<>>, NONE)

\* variant: the receive handler is called before the bytes are appended
BLEperipheral_irq_GATTS_WRITE_handler_first(p, conn_handle, value_handle, value) ==
    IF conn_handle \in p.connections /\ value_handle = p.rx_handle
    THEN LET p1 == [p EXCEPT !.rx_buffer = @ \o value]
         IN  Out(p1,
                 << Request("gatts_read", <<p.rx_handle>>, FALSE) >>,
                 IF Truthy(p.handler)
                 THEN << InvokeAt(p.handler, <<>>, p) >> ELSE <<>>,
                 NONE)
    ELSE Out(p, <<>>, <<>>, NONE)

\* value: what gatts_read(rx_handle) returns while the event is handled
BLEperipheral_irq_GATTS_WRITE(p, conn_handle, value_handle, value) ==
    IF conn_handle \in p.connections /\ value_handle = p.rx_handle
    THEN LET p1 == [p EXCEPT !.rx_buffer = @ \o value]
         IN  Out(p1,
                 << Request("gatts_read", <<p.rx_handle>>, FALSE) >>,
                 IF Truthy(p.handler)
                 THEN << InvokeAt(p.handler, <<>>, p1) >> ELSE <<>>,
                 NONE)
    ELSE Out(p, <<>>, <<>>, NONE)

BLEperipheral_irq_MTU_EXCHANGED(p) ==
    Out(p, <<>>, <<>>, NONE)

BLEperipheral_irq(p, handler) ==
    Out([p EXCEPT !.handler = handler], <<>>, <<>>, NONE)

BLEperipheral_any(p) ==
    Out(p, <<>>, <<>>, Len(p.rx_buffer))

\* sz is NONE (argument omitted) or a size >= 0
BLEperipheral_read(p, sz) ==
    LET n == IF ~Truthy(sz) THEN Len(p.rx_buffer) ELSE sz
    IN  Out([p EXCEPT !.rx_buffer = SliceFrom(p.rx_buffer, n)],
            <<>>, <<>>, Slice0(p.rx_buffer, n))

\* variant: only the first session of the iteration is notified
BLEperipheral_write_first_only(p, data, order) ==
    Out(p,
        [ i \in 1..Min(1, Len(order)) |->
            Request("gatts_notify", <<order[i], p.tx_handle, data>>, FALSE) ],
        <<>>, NONE)

\* order: the order in which the loop visits self._connections
BLEperipheral_write(p, data, order) ==
    Out(p,
        [ i \in 1..Len(order) |->
            Request("gatts_notify", <<order[i], p.tx_handle, data>>, FALSE) ],
        <<>>, NONE)

\* variant: close() requests the disconnects and keeps the registry
BLEperipheral_close_keeping(p, order) ==
    Out(p,
        [ i \in 1..Len(order) |->
            Request("gap_disconnect", <<order[i]>>, FALSE) ],
        <<>>, NONE)

BLEperipheral_close(p, order) ==
    Out([p EXCEPT !.connections = {}],
        [ i \in 1..Len(order) |->
            Request("gap_disconnect", <<order[i]>>, FALSE) ],
        <<>>, NONE)

BLEperipheral_is_connected(p) ==
    Cardinality(p.connections) > 0

----------------------------------------------------------------------------
(* The two _irq dispatchers: event is the event code, data its tuple *)

IRQ_CENTRAL_CONNECT == 1
IRQ_CENTRAL_DISCONNECT == 2
IRQ_GATTS_WRITE == 3
IRQ_SCAN_RESULT == 5
IRQ_SCAN_DONE == 6
IRQ_advertising_payload_CONNECT == 7
IRQ_advertising_payload_DISCONNECT == 8
IRQ_GATTC_SERVICE_RESULT == 9
IRQ_GATTC_SERVICE_DONE == 10
IRQ_GATTC_CHARACTERISTIC_RESULT == 11
IRQ_GATTC_CHARACTERISTIC_DONE == 12
IRQ_GATTC_WRITE_DONE == 17
IRQ_GATTC_NOTIFY == 18
IRQ_MTU_EXCHANGED == 21
FLAG_WRITE == 8
FLAG_NOTIFY == 16
MAX_NB_BYTES == 128

BLECentral__irq(c, event, data) ==
    CASE event = IRQ_SCAN_RESULT ->
           BLECentral_irq_SCAN_RESULT(c, data[1], data[2], data[3], data[4], data[5])
      [] event = IRQ_SCAN_DONE ->
           BLECentral_irq_SCAN_DONE(c)
      [] event = IRQ_advertising_payload_CONNECT ->
           BLECentral_irq_CONNECT(c, data[1], data[2], data[3])
      [] event = IRQ_advertising_payload_DISCONNECT ->
           BLECentral_irq_DISCONNECT(c, data[1], data[2], data[3])
      [] event = IRQ_GATTC_SERVICE_RESULT ->
           BLECentral_irq_SERVICE_RESULT(c, data[1], data[2], data[3], data[4])
      [] event = IRQ_GATTC_SERVICE_DONE ->
           BLECentral_irq_SERVICE_DONE(c)
      [] event = IRQ_GATTC_CHARACTERISTIC_RESULT ->
           BLECentral_irq_CHARACTERISTIC_RESULT(c, data[1], data[2], data[3],
                                                data[4], data[5])
      [] event = IRQ_GATTC_CHARACTERISTIC_DONE ->
           BLECentral_irq_CHARACTERISTIC_DONE(c)
      [] event = IRQ_GATTC_WRITE_DONE ->
           BLECentral_irq_WRITE_DONE(c, data[1], data[2], data[3])
      [] event = IRQ_GATTC_NOTIFY ->
           BLECentral_irq_NOTIFY(c, data[1], data[2], data[3])
      [] event = IRQ_MTU_EXCHANGED ->
           BLECentral_irq_MTU_EXCHANGED(c)
      [] OTHER -> Out(c, <<>>, <<>>, NONE)

\* value: what gatts_read(rx_handle) returns while a write event is handled
BLEperipheral__irq(p, event, data, value) ==
    CASE event = IRQ_CENTRAL_CONNECT ->
           BLEperipheral_irq_CENTRAL_CONNECT(p, data[1])
      [] event = IRQ_CENTRAL_DISCONNECT ->
           BLEperipheral_irq_CENTRAL_DISCONNECT(p, data[1])
      [] event = IRQ_GATTS_WRITE ->
           BLEperipheral_irq_GATTS_WRITE(p, data[1], data[2], value)
      [] event = IRQ_MTU_EXCHANGED ->
           BLEperipheral_irq_MTU_EXCHANGED(p)
      [] OTHER -> Out(p, <<>>, <<>>, NONE)

----------------------------------------------------------------------------
(* Histories kept for the properties; no operator above reads them *)

NoSession ==
    [ want |-> <<>>,
      phase |-> [h \in ConnHandles |-> "off"],
      peer |-> [h \in ConnHandles |-> <<>>],
      span |-> [h \in ConnHandles |-> <<>>],
      svc |-> FALSE, rx |-> FALSE, tx |-> FALSE, failed |-> FALSE,
      dry |-> FALSE ]

\* cb: the callback the last scan() registered; n: matching advertisements
\* received since (2 stands for two or more); ad: the matching advertisement
\* when n = 1; fires: invocations of the scan callback since (at most 2 counted)
NoCycle == [cb |-> NONE, n |-> 0, ad |-> <<>>, fires |-> 0]

\* accepted: the bytes of the inbound writes taken into the buffer; consumed:
\* the bytes returned by read(); live: the session handles whose latest
\* connect event was followed by no disconnect event and no close()
NoStream == [accepted |-> <<>>, consumed |-> <<>>, live |-> {}]

NoLink == [pc |-> "off"]

\* the advertisement is connectable, declares the Uart service and carries a
\* name whose first NBCHAR characters are those of the target name
Matches(adv_type, adv_data) ==
    /\ adv_type \in {ADV_IND, ADV_DIRECT_IND}
    /\ UART_SERVICE_UUID \in adv_data.services
    /\ Len(adv_data.name) >= NBCHAR
    /\ \A i \in 1..NBCHAR : adv_data.name[i] = TARGET_PERIPHERAL_NAME[i]

\* value_handle lies in the Uart service span the Central has recorded
UnderSpan(c, value_handle) ==
    /\ c.start_handle # NONE
    /\ c.end_handle # NONE
    /\ c.start_handle <= value_handle
    /\ value_handle <= c.end_handle

----------------------------------------------------------------------------
(* State after construction of both objects *)

\* no call of wait_for_connection is in progress and none has returned.
\* During a call: its arguments, the time slept so far, whether the caller
\* resets the Central when the call returns False (the call after
\* disconnect() in demo()), and (observation only) whether is_connected()
\* equalled status when the loop condition was evaluated with time left.
\* After the call: reset_due while that _reset() is still to be called
NoWait ==
    [active |-> FALSE, status |-> FALSE, timeout_ms |-> 0, elapsed |-> 0,
     closing |-> FALSE, reset_due |-> FALSE, seen |-> FALSE]

Init ==
    /\ central = BLECentral_reset
    /\ \E tx \in AttrHandles, rx \in AttrHandles :
          /\ tx < rx
          /\ periph = BLEperipheral_init(tx, rx)
    /\ last = "init"
    /\ req = <<>>
    /\ calls = <<>>
    /\ ret = NONE
    /\ sess = NoSession
    /\ cycle = NoCycle
    /\ stream = NoStream
    /\ link = NoLink
    /\ Central_ACK_required = 0
    /\ wait = NoWait

----------------------------------------------------------------------------
(* Steps of the Central: method calls of the application and events that   *)
(* the transport delivers to _irq, with arbitrary data.  With w = "scan"   *)
(* the history of the scan cycle is kept.                                  *)

CentralStep(w, op, o, cy) ==
    /\ central' = o.c
    /\ req' = o.req
    /\ calls' = o.calls
    /\ ret' = o.ret
    /\ last' = op
    /\ cycle' = IF w = "scan" THEN cy ELSE cycle
    /\ UNCHANGED <<periph, sess, stream, link, Central_ACK_required, wait>>

C_scan(w) ==
    \E callback \in ScanCallbacks \cup {NONE}, raised \in BOOLEAN :
        CentralStep(w, "scan", BLECentral_scan(central, callback, raised),
                    [NoCycle EXCEPT !.cb = callback])

C_connect(w) ==
    \E addr_type \in AddrTypes \cup {NONE}, addr \in Addrs \cup {NONE},
       callback \in ConnCallbacks \cup {NONE}, raised \in BOOLEAN :
        CentralStep(w, "connect",
                    BLECentral_connect(central, addr_type, addr, callback, raised),
                    cycle)

C_disconnect(w) ==
    \E raised \in BOOLEAN :
        CentralStep(w, "disconnect", BLECentral_disconnect(central, raised), cycle)

C_on_notify(w) ==
    \E callback \in NotifyCallbacks \cup {NONE} :
        CentralStep(w, "on_notify", BLECentral_on_notify(central, callback), cycle)

C_irq_SCAN_RESULT(w) ==
    \E addr_type \in AddrTypes, addr \in Addrs, ad \in Adverts :
        CentralStep(w, "SCAN_RESULT",
                    BLECentral_irq_SCAN_RESULT(central, addr_type, addr,
                                               ad.adv_type, -60, ad.adv_data),
                    IF Matches(ad.adv_type, ad.adv_data)
                    THEN [cycle EXCEPT
                            !.n = Min(@ + 1, 2),
                            !.ad = IF cycle.n = 0
                                   THEN <<addr_type, addr, ad.adv_data.name>>
                                   ELSE <<>>]
                    ELSE cycle)

C_irq_SCAN_DONE(w) ==
    LET o == BLECentral_irq_SCAN_DONE(central)
    IN  CentralStep(w, "SCAN_DONE", o,
                    [cycle EXCEPT !.fires = Min(@ + Len(o.calls), 2)])

C_irq_CONNECT(w) ==
    \E conn_handle \in ConnHandles, addr_type \in AddrTypes, addr \in Addrs :
        CentralStep(w, "CONNECT",
                    BLECentral_irq_CONNECT(central, conn_handle, addr_type, addr),
                    cycle)

C_irq_DISCONNECT(w) ==
    \E conn_handle \in ConnHandles :
        CentralStep(w, "DISCONNECT",
                    BLECentral_irq_DISCONNECT(central, conn_handle,
                                              ADDR_TYPE_PUBLIC, 1),
                    cycle)

C_irq_SERVICE_RESULT(w) ==
    \E conn_handle \in ConnHandles, start_handle \in AttrHandles,
       end_handle \in AttrHandles, uuid \in {UART_SERVICE_UUID, OTHER_UUID} :
        /\ start_handle <= end_handle
        /\ CentralStep(w, "SERVICE_RESULT",
                       BLECentral_irq_SERVICE_RESULT(central, conn_handle,
                                                     start_handle, end_handle, uuid),
                       cycle)

C_irq_SERVICE_DONE(w) ==
    CentralStep(w, "SERVICE_DONE", BLECentral_irq_SERVICE_DONE(central), cycle)

C_irq_CHARACTERISTIC_RESULT(w) ==
    \E conn_handle \in ConnHandles, value_handle \in AttrHandles,
       uuid \in {UART_RX_CHAR_UUID, UART_TX_CHAR_UUID, OTHER_UUID} :
        CentralStep(w, "CHARACTERISTIC_RESULT",
                    BLECentral_irq_CHARACTERISTIC_RESULT(
                        central, conn_handle, value_handle, value_handle, 0, uuid),
                    cycle)

C_irq_CHARACTERISTIC_DONE(w) ==
    CentralStep(w, "CHARACTERISTIC_DONE",
                BLECentral_irq_CHARACTERISTIC_DONE(central), cycle)

C_irq_WRITE_DONE(w) ==
    CentralStep(w, "WRITE_DONE",
                BLECentral_irq_WRITE_DONE(central, 0, 1, 0), cycle)

C_irq_NOTIFY(w) ==
    \E conn_handle \in ConnHandles, value_handle \in AttrHandles,
       notify_data \in Payloads :
        CentralStep(w, "NOTIFY",
                    BLECentral_irq_NOTIFY(central, conn_handle, value_handle,
                                          notify_data),
                    cycle)

C_irq_MTU_EXCHANGED(w) ==
    CentralStep(w, "MTU_EXCHANGED", BLECentral_irq_MTU_EXCHANGED(central), cycle)

\* the Central under every method call and every event
Next ==
    \/ C_scan("none")
    \/ C_connect("none")
    \/ C_disconnect("none")
    \/ C_on_notify("none")
    \/ C_irq_SCAN_RESULT("none")
    \/ C_irq_SCAN_DONE("none")
    \/ C_irq_CONNECT("none")
    \/ C_irq_DISCONNECT("none")
    \/ C_irq_SERVICE_RESULT("none")
    \/ C_irq_SERVICE_DONE("none")
    \/ C_irq_CHARACTERISTIC_RESULT("none")
    \/ C_irq_CHARACTERISTIC_DONE("none")
    \/ C_irq_WRITE_DONE("none")
    \/ C_irq_NOTIFY("none")
    \/ C_irq_MTU_EXCHANGED("none")

Spec == Init /\ [][Next]_vars

\* a scan cycle of the Central: scan() and the scan events
ScanNext ==
    \/ C_scan("scan")
    \/ C_irq_SCAN_RESULT("scan")
    \/ C_irq_SCAN_DONE("scan")

ScanSpec == Init /\ [][ScanNext]_vars

\* Steps that read or write the module-level flag
FlagStep(op, o) ==
    /\ central' = o.c
    /\ req' = o.req
    /\ calls' = o.calls
    /\ ret' = o.ret
    /\ last' = op
    /\ Central_ACK_required' = o.ack
    /\ UNCHANGED <<periph, sess, cycle, stream, link, wait>>

C_write ==
    \E v \in Payloads, response \in BOOLEAN, raised \in BOOLEAN :
        FlagStep("write",
                 BLECentral_write(central, Central_ACK_required, v, response,
                                  raised))

C_on_receipt ==
    \E v \in Payloads :
        LET o == on_receipt(Central_ACK_required, v)
        IN  FlagStep("on_receipt",
                     OutG(central, <<>>, <<>>, o.ret, o.ack, FALSE))

Timeouts == { k * T_WAIT : k \in 0..MaxWait }

\* wait_for_connection: the call takes the time of its sleeps, and while
\* it sleeps the transport delivers events to _irq.  The call is entered,
\* sleeps _T_WAIT at a time while the loop condition holds, and returns.
\* None of its steps issues a request or invokes a callback.
WaitStep(op, v, w) ==
    /\ last' = op
    /\ req' = <<>>
    /\ calls' = <<>>
    /\ ret' = v
    /\ wait' = w
    /\ UNCHANGED <<central, periph, sess, cycle, stream, link,
                   Central_ACK_required>>

\* status was observed when the loop condition is evaluated with time left
Polled(c, w) ==
    w.seen \/ (w.elapsed < w.timeout_ms /\ BLECentral_is_connected(c) = w.status)

C_wait_for_connection ==
    /\ ~wait.active
    /\ ~wait.reset_due
    /\ \E status \in BOOLEAN, timeout_ms \in Timeouts, closing \in BOOLEAN :
          LET w == [active |-> TRUE, status |-> status,
                    timeout_ms |-> timeout_ms, elapsed |-> 0,
                    closing |-> closing, reset_due |-> FALSE, seen |-> FALSE]
          IN  WaitStep("wait_for_connection:call", NONE,
                       [w EXCEPT !.seen = Polled(central, w)])

\* time.sleep_ms(_T_WAIT) in the loop
C_wait_sleep ==
    /\ wait.active
    /\ wait.elapsed < wait.timeout_ms
    /\ LET w == [wait EXCEPT !.elapsed = @ + T_WAIT]
       IN  WaitStep("wait_for_connection:sleep", NONE,
                    [w EXCEPT !.seen = Polled(central, w)])

\* the loop condition fails: return False
C_wait_return ==
    /\ wait.active
    /\ ~(wait.elapsed < wait.timeout_ms)
    /\ LET v == WaitLoop(wait.elapsed, wait.timeout_ms)
       IN  WaitStep("wait_for_connection", v,
                    [wait EXCEPT !.active = FALSE,
                                 !.reset_due = wait.closing /\ ~v])

\* demo(): central._reset() after the wait_for_connection that follows
\* disconnect() returned False; events may have been handled in between
C_reset ==
    /\ ~wait.active
    /\ wait.reset_due
    /\ central' = BLECentral_reset
    /\ req' = <<>>
    /\ calls' = <<>>
    /\ ret' = NONE
    /\ last' = "_reset"
    /\ wait' = [wait EXCEPT !.reset_due = FALSE]
    /\ UNCHANGED <<periph, sess, cycle, stream, link, Central_ACK_required>>

\* the application is between two calls, and not about to call _reset()
AppIdle == ~wait.active /\ ~wait.reset_due

\* the Central's sessions with write(), wait_for_connection() and the
\* receive handler: the application calls one method at a time, the
\* transport delivers events at any time, also during wait_for_connection
WriteNext ==
    \/ AppIdle /\ C_connect("none")
    \/ AppIdle /\ C_disconnect("none")
    \/ C_irq_CONNECT("none")
    \/ C_irq_DISCONNECT("none")
    \/ C_irq_CHARACTERISTIC_RESULT("none")
    \/ AppIdle /\ C_write
    \/ C_on_receipt
    \/ C_wait_for_connection
    \/ C_wait_sleep
    \/ C_wait_return
    \/ C_reset

WriteSpec == Init /\ [][WriteNext]_vars

----------------------------------------------------------------------------
(* Sessions of the Central over a transport that keeps the ordering of     *)
(* spec section 5: a connect event answers the pending connect request,    *)
(* result events of a discovery arrive between its request and its done    *)
(* event, characteristic results lie in the requested span.  The           *)
(* application may call connect() and disconnect() at any time.  sess      *)
(* holds the state of the transport and the history of the Central's       *)
(* current session:                                                        *)
(*   want   the (address type, address) pair of the pending connect        *)
(*          request, or <<>>                                               *)
(*   phase  per session handle: "off", "idle", "svc" (service discovery    *)
(*          running) or "chr" (characteristic discovery running)           *)
(*   peer   per session handle, the pair it is connected to                *)
(*   span   per session handle, the span of the running characteristic     *)
(*          discovery                                                      *)
(*   svc    a Uart service span was recorded in the current session        *)
(*   rx, tx the handle was recorded in the current session from a          *)
(*          characteristic result under that span                          *)
(*   failed a characteristic-done of the current session found a handle    *)
(*          missing                                                        *)
(*   dry    a service-done of the current session arrived with no Uart     *)
(*          span recorded in it                                            *)

SessionStep(op, o, s) ==
    /\ central' = o.c
    /\ req' = o.req
    /\ calls' = o.calls
    /\ ret' = o.ret
    /\ last' = op
    /\ sess' = s
    /\ UNCHANGED <<periph, cycle, stream, link, Central_ACK_required, wait>>

\* the history restarts when the session handle changes
Fresh(s, c, o) ==
    IF o.c.conn_handle # c.conn_handle
    THEN [s EXCEPT !.svc = FALSE, !.rx = FALSE, !.tx = FALSE,
                   !.failed = FALSE, !.dry = FALSE]
    ELSE s

S_connect ==
    \E addr_type \in {ADDR_TYPE_PUBLIC, NONE}, addr \in Addrs \cup {NONE},
       callback \in ConnCallbacks \cup {NONE} :
        LET o == BLECentral_connect(central, addr_type, addr, callback, FALSE)
        IN  SessionStep("connect", o,
                        IF o.req # <<>> /\ sess.want = <<>>
                        THEN [sess EXCEPT !.want = o.req[1].args]
                        ELSE sess)

S_disconnect ==
    \E raised \in BOOLEAN :
        LET o == BLECentral_disconnect(central, raised)
        IN  SessionStep("disconnect", o, Fresh(sess, central, o))

S_irq_CONNECT ==
    \E conn_handle \in ConnHandles :
        /\ sess.want # <<>>
        /\ sess.phase[conn_handle] = "off"
        /\ \A h \in ConnHandles : sess.peer[h] # sess.want
        /\ LET o == BLECentral_irq_CONNECT(central, conn_handle,
                                           sess.want[1], sess.want[2])
               s1 == [sess EXCEPT
                        !.want = <<>>,
                        !.peer[conn_handle] = sess.want,
                        !.phase[conn_handle] =
                            IF o.req # <<>> THEN "svc" ELSE "idle"]
           IN  SessionStep("CONNECT", o,
                           IF o.req # <<>>
                           THEN [s1 EXCEPT !.svc = FALSE, !.rx = FALSE,
                                           !.tx = FALSE, !.failed = FALSE,
                                           !.dry = FALSE]
                           ELSE s1)

S_irq_DISCONNECT ==
    \E conn_handle \in ConnHandles :
        /\ sess.phase[conn_handle] # "off"
        /\ LET o == BLECentral_irq_DISCONNECT(central, conn_handle,
                                              sess.peer[conn_handle][1],
                                              sess.peer[conn_handle][2])
           IN  SessionStep("DISCONNECT", o,
                           Fresh([sess EXCEPT !.phase[conn_handle] = "off",
                                              !.peer[conn_handle] = <<>>,
                                              !.span[conn_handle] = <<>>],
                                 central, o))

S_irq_SERVICE_RESULT ==
    \E conn_handle \in ConnHandles, start_handle \in AttrHandles,
       end_handle \in AttrHandles, uuid \in {UART_SERVICE_UUID, OTHER_UUID} :
        /\ sess.phase[conn_handle] = "svc"
        /\ start_handle <= end_handle
        /\ LET o == BLECentral_irq_SERVICE_RESULT(central, conn_handle,
                                                  start_handle, end_handle, uuid)
           IN  SessionStep("SERVICE_RESULT", o,
                           [sess EXCEPT !.svc =
                               @ \/ (conn_handle = central.conn_handle
                                     /\ uuid = UART_SERVICE_UUID)])

S_irq_SERVICE_DONE ==
    \E conn_handle \in ConnHandles :
        /\ sess.phase[conn_handle] = "svc"
        /\ LET o == BLECentral_irq_SERVICE_DONE(central)
               s1 == [sess EXCEPT
                        !.phase[conn_handle] = "idle",
                        !.dry = @ \/ (conn_handle = central.conn_handle
                                      /\ ~sess.svc)]
               h == IF o.req # <<>> THEN o.req[1].args[1] ELSE NONE
           IN  SessionStep("SERVICE_DONE", o,
                           IF h \in ConnHandles /\ s1.phase[h] = "idle"
                           THEN [s1 EXCEPT
                                   !.phase[h] = "chr",
                                   !.span[h] = <<o.req[1].args[2],
                                                 o.req[1].args[3]>>]
                           ELSE s1)

S_irq_CHARACTERISTIC_RESULT ==
    \E conn_handle \in ConnHandles, value_handle \in AttrHandles,
       uuid \in {UART_RX_CHAR_UUID, UART_TX_CHAR_UUID, OTHER_UUID} :
        /\ sess.phase[conn_handle] = "chr"
        /\ sess.span[conn_handle][1] <= value_handle
        /\ value_handle <= sess.span[conn_handle][2]
        /\ LET o == BLECentral_irq_CHARACTERISTIC_RESULT(
                        central, conn_handle, value_handle, value_handle, 0, uuid)
               mine == conn_handle = central.conn_handle
               good == sess.svc /\ UnderSpan(central, value_handle)
           IN  SessionStep("CHARACTERISTIC_RESULT", o,
                   [sess EXCEPT
                      !.rx = IF mine /\ uuid = UART_RX_CHAR_UUID THEN good ELSE @,
                      !.tx = IF mine /\ uuid = UART_TX_CHAR_UUID THEN good ELSE @])

S_irq_CHARACTERISTIC_DONE ==
    \E conn_handle \in ConnHandles :
        /\ sess.phase[conn_handle] = "chr"
        /\ SessionStep("CHARACTERISTIC_DONE",
                       BLECentral_irq_CHARACTERISTIC_DONE(central),
                       [sess EXCEPT
                          !.phase[conn_handle] = "idle",
                          !.span[conn_handle] = <<>>,
                          !.failed = @ \/ (conn_handle = central.conn_handle
                                           /\ (central.rx_handle = NONE
                                               \/ central.tx_handle = NONE))])

SessionNext ==
    \/ S_connect
    \/ S_disconnect
    \/ S_irq_CONNECT
    \/ S_irq_DISCONNECT
    \/ S_irq_SERVICE_RESULT
    \/ S_irq_SERVICE_DONE
    \/ S_irq_CHARACTERISTIC_RESULT
    \/ S_irq_CHARACTERISTIC_DONE

SessionSpec == Init /\ [][SessionNext]_vars

----------------------------------------------------------------------------
(* Disconnect events at any stage of a session, with discovery events of   *)
(* any session arriving at any time.  Here sess records                    *)
(*   hit    the stage of the session that the last matching disconnect     *)
(*          event ended: "connected", "span" (service span recorded),      *)
(*          "partial" (one characteristic handle recorded) or "ready";     *)
(*          "none" before the first                                        *)
(*   stale  a discovery result arrived since, with no session handle set   *)

NoReset == [hit |-> "none", stale |-> FALSE]

Stage(c) ==
    IF c.conn_handle = NONE THEN "idle"
    ELSE IF BLECentral_is_connected(c) THEN "ready"
    ELSE IF c.rx_handle # NONE \/ c.tx_handle # NONE THEN "partial"
    ELSE IF c.start_handle # NONE THEN "span"
    ELSE "connected"

ResetInit ==
    /\ central = BLECentral_reset
    /\ \E tx \in AttrHandles, rx \in AttrHandles :
          /\ tx < rx
          /\ periph = BLEperipheral_init(tx, rx)
    /\ last = "init"
    /\ req = <<>>
    /\ calls = <<>>
    /\ ret = NONE
    /\ sess = NoReset
    /\ cycle = NoCycle
    /\ stream = NoStream
    /\ link = NoLink
    /\ Central_ACK_required = 0
    /\ wait = NoWait

R_connect ==
    \E addr_type \in AddrTypes, addr \in Addrs,
       callback \in ConnCallbacks \cup {NONE} :
        SessionStep("connect",
                    BLECentral_connect(central, addr_type, addr, callback, FALSE),
                    sess)

R_irq_CONNECT ==
    \E conn_handle \in ConnHandles, addr_type \in AddrTypes, addr \in Addrs :
        SessionStep("CONNECT",
                    BLECentral_irq_CONNECT(central, conn_handle, addr_type, addr),
                    sess)

R_irq_DISCONNECT ==
    \E conn_handle \in ConnHandles :
        SessionStep("DISCONNECT",
                    BLECentral_irq_DISCONNECT(central, conn_handle,
                                              ADDR_TYPE_PUBLIC, 1),
                    IF conn_handle = central.conn_handle
                    THEN [hit |-> Stage(central), stale |-> FALSE]
                    ELSE sess)

R_irq_SERVICE_RESULT ==
    \E conn_handle \in ConnHandles, start_handle \in AttrHandles,
       end_handle \in AttrHandles, uuid \in {UART_SERVICE_UUID, OTHER_UUID} :
        /\ start_handle <= end_handle
        /\ SessionStep("SERVICE_RESULT",
                       BLECentral_irq_SERVICE_RESULT(central, conn_handle,
                                                     start_handle, end_handle, uuid),
                       [sess EXCEPT !.stale =
                           @ \/ (sess.hit # "none" /\ central.conn_handle = NONE
                                 /\ uuid = UART_SERVICE_UUID)])

R_irq_SERVICE_DONE ==
    SessionStep("SERVICE_DONE", BLECentral_irq_SERVICE_DONE(central), sess)

R_irq_CHARACTERISTIC_RESULT ==
    \E conn_handle \in ConnHandles, value_handle \in AttrHandles,
       uuid \in {UART_RX_CHAR_UUID, UART_TX_CHAR_UUID, OTHER_UUID} :
        SessionStep("CHARACTERISTIC_RESULT",
                    BLECentral_irq_CHARACTERISTIC_RESULT(
                        central, conn_handle, value_handle, value_handle, 0, uuid),
                    [sess EXCEPT !.stale =
                        @ \/ (sess.hit # "none" /\ central.conn_handle = NONE
                              /\ uuid # OTHER_UUID)])

R_irq_CHARACTERISTIC_DONE ==
    SessionStep("CHARACTERISTIC_DONE",
                BLECentral_irq_CHARACTERISTIC_DONE(central), sess)

ResetNext ==
    \/ R_connect
    \/ R_irq_CONNECT
    \/ R_irq_DISCONNECT
    \/ R_irq_SERVICE_RESULT
    \/ R_irq_SERVICE_DONE
    \/ R_irq_CHARACTERISTIC_RESULT
    \/ R_irq_CHARACTERISTIC_DONE

ResetSpec == ResetInit /\ [][ResetNext]_vars

----------------------------------------------------------------------------
(* Notifications over several sessions.  Here sess records                 *)
(*   handler  the handler the application registered last with on_notify() *)

NoHandlerYet == [handler |-> NONE]

NotifyInit ==
    /\ central = BLECentral_reset
    /\ \E tx \in AttrHandles, rx \in AttrHandles :
          /\ tx < rx
          /\ periph = BLEperipheral_init(tx, rx)
    /\ last = "init"
    /\ req = <<>>
    /\ calls = <<>>
    /\ ret = NONE
    /\ sess = NoHandlerYet
    /\ cycle = NoCycle
    /\ stream = NoStream
    /\ link = NoLink
    /\ Central_ACK_required = 0
    /\ wait = NoWait

N_on_notify ==
    \E callback \in NotifyCallbacks :
        SessionStep("on_notify", BLECentral_on_notify(central, callback),
                    [handler |-> callback])

N_connect ==
    \E addr \in Addrs, callback \in ConnCallbacks \cup {NONE} :
        SessionStep("connect",
                    BLECentral_connect(central, ADDR_TYPE_PUBLIC, addr, callback,
                                       FALSE),
                    sess)

N_disconnect ==
    SessionStep("disconnect", BLECentral_disconnect(central, FALSE), sess)

N_irq_CONNECT ==
    \E conn_handle \in ConnHandles, addr \in Addrs :
        SessionStep("CONNECT",
                    BLECentral_irq_CONNECT(central, conn_handle,
                                           ADDR_TYPE_PUBLIC, addr),
                    sess)

N_irq_DISCONNECT ==
    \E conn_handle \in ConnHandles :
        SessionStep("DISCONNECT",
                    BLECentral_irq_DISCONNECT(central, conn_handle,
                                              ADDR_TYPE_PUBLIC, 1),
                    sess)

N_irq_CHARACTERISTIC_RESULT ==
    \E conn_handle \in ConnHandles, value_handle \in AttrHandles,
       uuid \in {UART_RX_CHAR_UUID, UART_TX_CHAR_UUID} :
        SessionStep("CHARACTERISTIC_RESULT",
                    BLECentral_irq_CHARACTERISTIC_RESULT(
                        central, conn_handle, value_handle, value_handle, 0, uuid),
                    sess)

N_irq_NOTIFY ==
    \E conn_handle \in ConnHandles, value_handle \in AttrHandles,
       notify_data \in Payloads :
        SessionStep("NOTIFY",
                    BLECentral_irq_NOTIFY(central, conn_handle, value_handle,
                                          notify_data),
                    sess)

NotifyNext ==
    \/ N_on_notify
    \/ N_connect
    \/ N_disconnect
    \/ N_irq_CONNECT
    \/ N_irq_DISCONNECT
    \/ N_irq_CHARACTERISTIC_RESULT
    \/ N_irq_NOTIFY

NotifySpec == NotifyInit /\ [][NotifyNext]_vars

----------------------------------------------------------------------------
(* Steps of the Peripheral: method calls of the application and events     *)
(* that the transport delivers to _irq, with arbitrary data                *)

PeripheralStep(op, o, st) ==
    /\ periph' = o.c
    /\ req' = o.req
    /\ calls' = o.calls
    /\ ret' = o.ret
    /\ last' = op
    /\ stream' = st
    /\ UNCHANGED <<central, sess, cycle, link, Central_ACK_required, wait>>

P_irq_CENTRAL_CONNECT ==
    \E conn_handle \in ConnHandles :
        PeripheralStep("CENTRAL_CONNECT",
                       BLEperipheral_irq_CENTRAL_CONNECT(periph, conn_handle),
                       [stream EXCEPT !.live = @ \cup {conn_handle}])

P_irq_CENTRAL_DISCONNECT ==
    \E conn_handle \in ConnHandles :
        PeripheralStep("CENTRAL_DISCONNECT",
                       BLEperipheral_irq_CENTRAL_DISCONNECT(periph, conn_handle),
                       [stream EXCEPT !.live = @ \ {conn_handle}])

P_irq_GATTS_WRITE ==
    \E conn_handle \in ConnHandles, value_handle \in AttrHandles,
       value \in Payloads \cup {<<>>} :
        LET o == BLEperipheral_irq_GATTS_WRITE(periph, conn_handle, value_handle,
                                               value)
            accepted == conn_handle \in periph.connections
                        /\ value_handle = periph.rx_handle
        IN  /\ accepted => Len(stream.accepted) + Len(value) <= MaxBytes
            /\ PeripheralStep("GATTS_WRITE", o,
                              IF accepted
                              THEN [stream EXCEPT !.accepted = @ \o value]
                              ELSE stream)

P_irq_MTU_EXCHANGED ==
    PeripheralStep("MTU_EXCHANGED", BLEperipheral_irq_MTU_EXCHANGED(periph),
                   stream)

P_irq ==
    \E handler \in RxHandlers \cup {NoHandler} :
        PeripheralStep("irq", BLEperipheral_irq(periph, handler), stream)

P_any ==
    PeripheralStep("any", BLEperipheral_any(periph), stream)

P_read ==
    \E sz \in {NONE} \cup (0..MaxRead) :
        LET o == BLEperipheral_read(periph, sz)
        IN  PeripheralStep("read", o, [stream EXCEPT !.consumed = @ \o o.ret])

P_write ==
    \E data \in Payloads, order \in Orders(periph.connections) :
        PeripheralStep("write", BLEperipheral_write(periph, data, order), stream)

P_close ==
    \E order \in Orders(periph.connections) :
        PeripheralStep("close", BLEperipheral_close(periph, order),
                       [stream EXCEPT !.live = {}])

PeripheralNext ==
    \/ P_irq_CENTRAL_CONNECT
    \/ P_irq_CENTRAL_DISCONNECT
    \/ P_irq_GATTS_WRITE
    \/ P_irq_MTU_EXCHANGED
    \/ P_irq
    \/ P_any
    \/ P_read
    \/ P_write
    \/ P_close

PeripheralSpec == Init /\ [][PeripheralNext]_vars

----------------------------------------------------------------------------
(* End to end: the Peripheral and the Central over a transport that        *)
(* answers every request and delivers the events in order.  The Central's  *)
(* application scans (again after a failure), connects to the scan         *)
(* result, and registers its notify handler once the connection is ready;  *)
(* the Peripheral's application writes a payload on every pass of its      *)
(* loop in which is_connected() holds, as in its demo.  link holds:        *)
(*   pc        where the Central's application is                          *)
(*   scanning  the transport scans for the Central                         *)
(*   adv       the Peripheral is advertising                               *)
(*   toC, toP  events in flight to the Central and to the Peripheral       *)
(*   ch, ph    the session handle on the Central's, the Peripheral's side  *)
(*   sent      the payloads the Peripheral wrote, in order                 *)
(*   ready0    how many of them were written before the Central's          *)
(*             application had registered its notify handler               *)
(*   got       the payloads the Central's notify handler received, each    *)
(*             with the position in sent of the write it stems from        *)

MaxQueue == 2       \* advertisements are dropped while so many events wait
MaxWrites == 2      \* passes of the Peripheral's loop that write

PERIPHERAL_ADDR == 1
FOREIGN_ADDR == 2
SCAN_CB == 1
READY_CB == 2
NOTIFY_CB == 3

Ev(event, data) == [event |-> event, data |-> data]

LinkStart ==
    [ pc |-> "start", scanning |-> FALSE, adv |-> TRUE,
      toC |-> <<>>, toP |-> <<>>, ch |-> NONE, ph |-> NONE,
      sent |-> <<>>, ready0 |-> NONE, got |-> <<>> ]

LinkInit ==
    /\ central = BLECentral_reset
    /\ \E tx \in AttrHandles, rx \in AttrHandles :
          /\ tx < rx
          /\ periph = BLEperipheral_init(tx, rx)
    /\ last = "init"
    /\ req = <<>>
    /\ calls = <<>>
    /\ ret = NONE
    /\ sess = NoSession
    /\ cycle = NoCycle
    /\ stream = NoStream
    /\ link = LinkStart
    /\ Central_ACK_required = 0
    /\ wait = NoWait

\* the events with which the transport answers one request of the Central,
\* given the attribute table p of the Peripheral
Answer(r, p, scanning) ==
    CASE r.fn = "gap_scan" /\ r.args = <<NONE>> ->
           IF scanning THEN << Ev(IRQ_SCAN_DONE, <<>>) >> ELSE <<>>
      [] r.fn = "gattc_exchange_mtu" ->
           << Ev(IRQ_MTU_EXCHANGED, <<r.args[1], MAX_NB_BYTES>>) >>
      [] r.fn = "gattc_discover_services" ->
           << Ev(IRQ_GATTC_SERVICE_RESULT,
                 <<r.args[1], p.tx_handle, p.rx_handle, UART_SERVICE_UUID>>),
              Ev(IRQ_GATTC_SERVICE_DONE, <<r.args[1], 0>>) >>
      [] r.fn = "gattc_discover_characteristics" ->
           (IF r.args[2] <= p.tx_handle /\ p.tx_handle <= r.args[3]
            THEN << Ev(IRQ_GATTC_CHARACTERISTIC_RESULT,
                       <<r.args[1], p.tx_handle, p.tx_handle, FLAG_NOTIFY,
                         UART_TX_CHAR_UUID>>) >>
            ELSE <<>>)
           \o (IF r.args[2] <= p.rx_handle /\ p.rx_handle <= r.args[3]
               THEN << Ev(IRQ_GATTC_CHARACTERISTIC_RESULT,
                          <<r.args[1], p.rx_handle, p.rx_handle, FLAG_WRITE,
                            UART_RX_CHAR_UUID>>) >>
               ELSE <<>>)
           \o << Ev(IRQ_GATTC_CHARACTERISTIC_DONE, <<r.args[1], 0>>) >>
      [] OTHER -> <<>>

RECURSIVE Answers(_, _, _)
Answers(rs, p, scanning) ==
    IF rs = <<>> THEN <<>>
    ELSE Answer(Head(rs), p, scanning) \o Answers(Tail(rs), p, scanning)

\* what the Central's application does in the callbacks that the handling
\* of event e invoked
RECURSIVE AppCallbacks(_, _, _)
AppCallbacks(ks, l, e) ==
    IF ks = <<>> THEN l
    ELSE LET k == Head(ks)
             l1 == CASE k.cb = SCAN_CB ->
                          [l EXCEPT !.pc = IF k.args[2] = NONE
                                           THEN "start" ELSE "found"]
                     [] k.cb = READY_CB -> [l EXCEPT !.pc = "discovered"]
                     [] k.cb = NOTIFY_CB ->
                          [l EXCEPT !.got = Append(@, [id |-> e.id,
                                                       data |-> k.args[1]])]
                     [] OTHER -> l
         IN  AppCallbacks(Tail(ks), l1, e)

LinkStepC(op, o, l) ==
    /\ central' = o.c
    /\ req' = o.req
    /\ calls' = o.calls
    /\ ret' = o.ret
    /\ last' = op
    /\ link' = l
    /\ UNCHANGED <<periph, sess, cycle, stream, Central_ACK_required, wait>>

LinkStepP(op, o, l) ==
    /\ periph' = o.c
    /\ req' = o.req
    /\ calls' = o.calls
    /\ ret' = o.ret
    /\ last' = op
    /\ link' = l
    /\ UNCHANGED <<central, sess, cycle, stream, Central_ACK_required, wait>>

L_app_scan ==
    /\ link.pc = "start"
    /\ LinkStepC("scan", BLECentral_scan(central, SCAN_CB, FALSE),
                 [link EXCEPT !.pc = "scanning", !.scanning = TRUE])

\* an advertisement reaches the scanning Central: the Peripheral's own, or
\* one of another device that is not the target
L_advert ==
    /\ link.scanning
    /\ Len(link.toC) < MaxQueue
    /\ \/ /\ link.adv
          /\ link' = [link EXCEPT !.toC = Append(@,
                        Ev(IRQ_SCAN_RESULT,
                           <<ADDR_TYPE_PUBLIC, PERIPHERAL_ADDR, ADV_IND, -60,
                             BLEperipheral_payload>>))]
       \/ \E ad \in { x \in Adverts : ~Matches(x.adv_type, x.adv_data) } :
             link' = [link EXCEPT !.toC = Append(@,
                        Ev(IRQ_SCAN_RESULT,
                           <<ADDR_TYPE_RANDOM, FOREIGN_ADDR, ad.adv_type, -80,
                             ad.adv_data>>))]
    /\ UNCHANGED <<central, periph, last, req, calls, ret, sess, cycle, stream,
                   Central_ACK_required, wait>>

\* the scan duration elapses
L_scan_timeout ==
    /\ link.scanning
    /\ link' = [link EXCEPT !.scanning = FALSE,
                            !.toC = Append(@, Ev(IRQ_SCAN_DONE, <<>>))]
    /\ UNCHANGED <<central, periph, last, req, calls, ret, sess, cycle, stream,
                   Central_ACK_required, wait>>

L_deliver_central ==
    /\ link.toC # <<>>
    /\ LET e == Head(link.toC)
           o == BLECentral__irq(central, e.event, e.data)
           stop == \E i \in 1..Len(o.req) :
                      o.req[i].fn = "gap_scan" /\ o.req[i].args = <<NONE>>
           l1 == [link EXCEPT
                    !.toC = Tail(@) \o Answers(o.req, periph, link.scanning),
                    !.scanning = @ /\ ~stop]
       IN  LinkStepC("deliver", o, AppCallbacks(o.calls, l1, e))

\* the application connects to the device the scan reported
L_app_connect ==
    /\ link.pc = "found"
    /\ LET o == BLECentral_connect(central, NONE, NONE, READY_CB, FALSE)
       IN  IF o.req # <<>>
                /\ o.req[1].args = <<ADDR_TYPE_PUBLIC, PERIPHERAL_ADDR>>
                /\ link.adv
           THEN \E ch \in ConnHandles, ph \in ConnHandles :
                   LinkStepC("connect", o,
                       [link EXCEPT
                          !.pc = "connecting", !.adv = FALSE,
                          !.ch = ch, !.ph = ph,
                          !.toC = Append(@, Ev(IRQ_advertising_payload_CONNECT,
                                     <<ch, ADDR_TYPE_PUBLIC, PERIPHERAL_ADDR>>)),
                          !.toP = Append(@, Ev(IRQ_CENTRAL_CONNECT,
                                     <<ph, ADDR_TYPE_PUBLIC, FOREIGN_ADDR>>))])
           ELSE LinkStepC("connect", o, [link EXCEPT !.pc = "connecting"])

L_app_on_notify ==
    /\ link.pc = "discovered"
    /\ LinkStepC("on_notify", BLECentral_on_notify(central, NOTIFY_CB),
                 [link EXCEPT !.pc = "ready", !.ready0 = Len(link.sent)])

L_deliver_peripheral ==
    /\ link.toP # <<>>
    /\ LET e == Head(link.toP)
       IN  LinkStepP("deliver",
                     BLEperipheral__irq(periph, e.event, e.data, <<>>),
                     [link EXCEPT !.toP = Tail(@)])

\* one pass of the Peripheral's loop: if uart.is_connected(): uart.write(X)
L_app_write ==
    /\ BLEperipheral_is_connected(periph)
    /\ Len(link.sent) < MaxWrites
    /\ \E X \in Payloads, order \in Orders(periph.connections) :
          LET o == BLEperipheral_write(periph, X, order)
              mine == { i \in 1..Len(o.req) : o.req[i].args[1] = link.ph }
              out == [ i \in 1..Len(o.req) |->
                         IF i \in mine
                         THEN << [event |-> IRQ_GATTC_NOTIFY,
                                  data |-> <<link.ch, o.req[i].args[2],
                                             o.req[i].args[3]>>,
                                  id |-> Len(link.sent) + 1] >>
                         ELSE <<>> ]
              RECURSIVE Flat(_)
              Flat(q) == IF q = <<>> THEN <<>> ELSE Head(q) \o Flat(Tail(q))
          IN  LinkStepP("write", o,
                        [link EXCEPT !.sent = Append(@, X),
                                     !.toC = @ \o Flat(out)])

LinkNext ==
    \/ L_app_scan
    \/ L_advert
    \/ L_scan_timeout
    \/ L_deliver_central
    \/ L_app_connect
    \/ L_app_on_notify
    \/ L_deliver_peripheral
    \/ L_app_write

LinkSpec ==
    /\ LinkInit
    /\ [][LinkNext]_vars
    /\ WF_vars(L_deliver_central)
    /\ WF_vars(L_deliver_peripheral)

----------------------------------------------------------------------------
(* Discoverability: the Peripheral over a transport that stops advertising *)
(* when a central connects and resumes only on an advertise request.       *)
(* Here link holds:                                                        *)
(*   adv    the transport is advertising for the Peripheral                *)
(*   peers  the session handles of the centrals connected at the transport *)
(*   toP    events in flight to the Peripheral                             *)

\* after __init__: its last request, _advertise(), is being served
AdvertStart == [adv |-> TRUE, peers |-> {}, toP |-> <<>>]

AdvertInit ==
    /\ central = BLECentral_reset
    /\ \E tx \in AttrHandles, rx \in AttrHandles :
          /\ tx < rx
          /\ periph = BLEperipheral_init(tx, rx)
    /\ last = "init"
    /\ req = << BLEperipheral_advertise(periph) >>
    /\ calls = <<>>
    /\ ret = NONE
    /\ sess = NoSession
    /\ cycle = NoCycle
    /\ stream = NoStream
    /\ link = AdvertStart
    /\ Central_ACK_required = 0
    /\ wait = NoWait

\* the transport serves the requests of the Peripheral in the order issued
RECURSIVE Served(_, _)
Served(l, rs) ==
    IF rs = <<>> THEN l
    ELSE LET r == Head(rs)
             l1 == CASE r.fn = "gap_advertise" -> [l EXCEPT !.adv = TRUE]
                     [] r.fn = "gap_disconnect" /\ r.args[1] \in l.peers ->
                          [l EXCEPT
                             !.peers = @ \ {r.args[1]},
                             !.toP = Append(@, Ev(IRQ_CENTRAL_DISCONNECT,
                                        <<r.args[1], ADDR_TYPE_PUBLIC,
                                          FOREIGN_ADDR>>))]
                     [] OTHER -> l
         IN  Served(l1, Tail(rs))

\* a central connects to the advertising Peripheral
A_peer_connects ==
    /\ link.adv
    /\ Len(link.toP) < MaxQueue
    /\ \E conn_handle \in ConnHandles \ link.peers :
          link' = [link EXCEPT
                     !.adv = FALSE,
                     !.peers = @ \cup {conn_handle},
                     !.toP = Append(@, Ev(IRQ_CENTRAL_CONNECT,
                                <<conn_handle, ADDR_TYPE_PUBLIC,
                                  FOREIGN_ADDR>>))]
    /\ UNCHANGED <<central, periph, last, req, calls, ret, sess, cycle, stream,
                   Central_ACK_required, wait>>

\* a connected central disconnects, or its connection is lost
A_peer_disconnects ==
    /\ Len(link.toP) < MaxQueue
    /\ \E conn_handle \in link.peers :
          link' = [link EXCEPT
                     !.peers = @ \ {conn_handle},
                     !.toP = Append(@, Ev(IRQ_CENTRAL_DISCONNECT,
                                <<conn_handle, ADDR_TYPE_PUBLIC,
                                  FOREIGN_ADDR>>))]
    /\ UNCHANGED <<central, periph, last, req, calls, ret, sess, cycle, stream,
                   Central_ACK_required, wait>>

\* a connected central writes value to the RX characteristic
A_peer_writes ==
    /\ Len(link.toP) < MaxQueue
    /\ \E conn_handle \in link.peers, value \in Payloads :
          /\ Len(periph.rx_buffer) + Len(value) <= MaxBytes
          /\ link' = [link EXCEPT
                        !.toP = Append(@, [event |-> IRQ_GATTS_WRITE,
                                   data |-> <<conn_handle, periph.rx_handle>>,
                                   value |-> value])]
    /\ UNCHANGED <<central, periph, last, req, calls, ret, sess, cycle, stream,
                   Central_ACK_required, wait>>

\* the transport delivers the next event to _irq
A_deliver ==
    /\ link.toP # <<>>
    /\ LET e == Head(link.toP)
           value == IF "value" \in DOMAIN e THEN e.value ELSE <<>>
           o == BLEperipheral__irq(periph, e.event, e.data, value)
       IN  LinkStepP("deliver", o,
                     Served([link EXCEPT !.toP = Tail(@)], o.req))

A_irq ==
    \E handler \in RxHandlers \cup {NoHandler} :
        LinkStepP("irq", BLEperipheral_irq(periph, handler), link)

A_read ==
    LinkStepP("read", BLEperipheral_read(periph, NONE), link)

A_write ==
    \E data \in Payloads, order \in Orders(periph.connections) :
        LET o == BLEperipheral_write(periph, data, order)
        IN  LinkStepP("write", o, Served(link, o.req))

A_close ==
    \E order \in Orders(periph.connections) :
        LET o == BLEperipheral_close(periph, order)
        IN  /\ Len(link.toP) + Len(o.req) <= MaxQueue
            /\ LinkStepP("close", o, Served(link, o.req))

AdvertNext ==
    \/ A_peer_connects
    \/ A_peer_disconnects
    \/ A_peer_writes
    \/ A_deliver
    \/ A_irq
    \/ A_read
    \/ A_write
    \/ A_close

AdvertSpec == AdvertInit /\ [][AdvertNext]_vars

----------------------------------------------------------------------------
(* Properties of the Central *)

\* C1: whenever disconnect() is called while a session exists (the session
\* handle is set, 0 included), afterwards is_connected() is false and every
\* field of the Central has its initial unset value, whether or not the
\* transport raised.
C1_DisconnectResets ==
    [][ (last' = "disconnect" /\ central.conn_handle # NONE)
          => (/\ ~BLECentral_is_connected(central')
              /\ central' = BLECentral_reset) ]_vars

\* C2: at a characteristic-done event of a connected session the
\* connection-ready callback is invoked iff both the RX and the TX handle were
\* recorded from characteristic-result events of that session under the
\* recorded Uart service span; once a characteristic-done arrived with a handle
\* missing, the callback is not invoked and is_connected() is false for the
\* rest of the session.
C2_ReadyIffDiscovered ==
    /\ (last = "CHARACTERISTIC_DONE" /\ central.conn_handle # NONE
          /\ central.conn_callback # NONE)
         => ((calls # <<>>) <=> (sess.rx /\ sess.tx))
    /\ (last = "CHARACTERISTIC_DONE" /\ sess.failed) => calls = <<>>
    /\ sess.failed => ~BLECentral_is_connected(central)

\* C3: at the first scan-done of a scan cycle started by scan(callback), if
\* exactly one matching advertisement was received the callback is invoked
\* with that advertisement's (address type, address, name), and if none was
\* received it is invoked with (None, None, None).
C3_ScanReportsTheMatch ==
    (last = "SCAN_DONE" /\ cycle.cb # NONE /\ cycle.fires = Len(calls))
      => /\ cycle.n = 1 => calls = << Invoke(cycle.cb, cycle.ad) >>
         /\ cycle.n = 0 => calls = << Invoke(cycle.cb, <<NONE, NONE, NoneStr>>) >>

\* C4: the scan callback is invoked at most once for each call of
\* scan(callback), and whenever a scan-done event has invoked it the stored
\* callback reference is cleared.
C4_ScanCallbackSingleShot ==
    /\ cycle.fires <= 1
    /\ (last = "SCAN_DONE" /\ calls # <<>>) => central.scan_callback = NONE

\* C5: a connect event whose (address type, address) differs from the cached
\* target pair, or that arrives when no target is cached, leaves every field of
\* the Central unchanged and issues no transport request.
C5_ConnectMismatchIgnored ==
    \A conn_handle \in ConnHandles, addr_type \in AddrTypes, addr \in Addrs :
        ~(addr_type = central.addr_type /\ addr = central.addr)
          => LET o == BLECentral_irq_CONNECT(central, conn_handle, addr_type, addr)
             IN  /\ o.c = central
                 /\ o.req = <<>>
                 /\ o.calls = <<>>

\* C5 witness: a connect event was ignored while a target was cached
C5_Witness ==
    /\ last = "CONNECT"
    /\ req = <<>>
    /\ central.addr # NONE
    /\ central.conn_handle = NONE

\* C10: connect() returns False and issues no request exactly when no address
\* type or no address is available after the explicit arguments were applied
\* (they replace the cached pair only when both are given); otherwise it issues
\* one connect request for the resulting pair and returns True, also when the
\* transport raised; connect() never changes the session handle, which only a
\* connect event sets.
C10_ConnectRequest ==
    /\ [](\A addr_type \in AddrTypes \cup {NONE}, addr \in Addrs \cup {NONE},
             callback \in ConnCallbacks \cup {NONE}, raised \in BOOLEAN :
            LET o == BLECentral_connect(central, addr_type, addr, callback, raised)
                both == addr_type # NONE /\ addr # NONE
                t == IF both THEN addr_type ELSE central.addr_type
                a == IF both THEN addr ELSE central.addr
            IN  /\ (o.ret = FALSE) <=> (t = NONE \/ a = NONE)
                /\ o.ret = FALSE => o.req = <<>>
                /\ o.ret # FALSE
                     => /\ o.ret = TRUE
                        /\ o.req = << Request("gap_connect", <<t, a>>, raised) >>
                /\ o.c.conn_handle = central.conn_handle)
    /\ [][ (central'.conn_handle # NONE
              /\ central'.conn_handle # central.conn_handle)
             => last' = "CONNECT" ]_vars

\* C10 witness: connect() returned True although the transport raised, and no
\* session handle is set
C10_Witness ==
    /\ last = "connect"
    /\ ret = TRUE
    /\ Len(req) = 1
    /\ req[1].raised
    /\ central.conn_handle = NONE

\* C11: wait_for_connection(status, timeout_ms) returns True when
\* is_connected() equalled the requested status at some poll before the
\* timeout elapsed (in particular status False on a Central that is not
\* connected), and False only when the status was not observed.
C11_WaitSignalsStatus ==
    (last = "wait_for_connection" /\ ~wait.active) => (ret = wait.seen)

\* C12: a disconnect event for the current session handle resets every field
\* of the Central at whatever stage it arrives, one for another handle changes
\* nothing, and whenever the session handle is unset the service span and the
\* RX and TX handles are unset too, also after discovery results that arrive
\* after the reset.
C12_DisconnectEventResets ==
    /\ \A conn_handle \in ConnHandles :
          LET o == BLECentral_irq_DISCONNECT(central, conn_handle,
                                            ADDR_TYPE_PUBLIC, 1)
          IN  /\ conn_handle = central.conn_handle => o.c = BLECentral_reset
              /\ conn_handle # central.conn_handle => o.c = central
    /\ central.conn_handle = NONE
         => /\ central.start_handle = NONE
            /\ central.end_handle = NONE
            /\ central.rx_handle = NONE
            /\ central.tx_handle = NONE

\* C12 witness: a disconnect event ended a ready session, and a discovery
\* result of a Uart characteristic that arrived afterwards was not recorded
C12_Witness ==
    /\ sess.hit = "ready"
    /\ sess.stale
    /\ last = "CHARACTERISTIC_RESULT"
    /\ central = BLECentral_reset

\* C13: when the transport raises a transient error inside scan(), connect()
\* or write(), the operation discards it: it returns normally, no error leaves
\* the call, and the one request is not repeated.
C13_TransportErrorDiscarded ==
    /\ \A callback \in ScanCallbacks \cup {NONE} :
          LET o == BLECentral_scan(central, callback, TRUE)
          IN  Len(o.req) = 1 /\ o.ret = NONE
    /\ \A addr_type \in AddrTypes \cup {NONE}, addr \in Addrs \cup {NONE},
          callback \in ConnCallbacks \cup {NONE} :
          LET o == BLECentral_connect(central, addr_type, addr, callback, TRUE)
          IN  Len(o.req) <= 1 /\ (o.req # <<>> => o.ret = TRUE)
    /\ \A v \in Payloads, response \in BOOLEAN :
          LET o == BLECentral_write(central, Central_ACK_required, v, response,
                                   TRUE)
          IN  Len(o.req) <= 1 /\ ~o.exc

\* C14: write(payload, response) on a Central that is not connected issues no
\* request and changes neither a field nor the module flag; on a connected
\* Central it issues exactly one write for the session handle and the RX
\* handle, carrying the payload, in write-with-response mode iff response.
C14_WriteOnlyWhenConnected ==
    /\ \A v \in Payloads, response \in BOOLEAN, raised \in BOOLEAN :
          LET o == BLECentral_write(central, Central_ACK_required, v, response,
                                   raised)
          IN  /\ o.c = central
              /\ ~BLECentral_is_connected(central)
                   => /\ o.req = <<>>
                      /\ o.ack = Central_ACK_required
              /\ BLECentral_is_connected(central)
                   => o.req = << Request("gattc_write",
                                         <<central.conn_handle, central.rx_handle,
                                           v, IF response THEN 1 ELSE 0>>,
                                         raised) >>
    /\ last = "write" => (req # <<>> <=> BLECentral_is_connected(central))

\* C14 witness: write() was called on a Central that is not connected while
\* the flag was pending, and nothing happened
C14_Witness ==
    /\ last = "write"
    /\ req = <<>>
    /\ Central_ACK_required = 1
    /\ central.conn_handle # NONE

\* C18: on a matching connect event the Central requests the MTU exchange and
\* then the service discovery for the new session handle; it requests a
\* characteristic discovery only while handling a service-done event and only
\* when a Uart service span was recorded in the current session, for exactly
\* that span and the current session handle; and after a service-done of the
\* session that found no span no characteristic discovery is requested.
C18_RequestsInDependencyOrder ==
    /\ \A conn_handle \in ConnHandles :
          (central.addr_type # NONE /\ central.addr # NONE)
            => BLECentral_irq_CONNECT(central, conn_handle, central.addr_type,
                                      central.addr).req
                 = << Request("gattc_exchange_mtu", <<conn_handle>>, FALSE),
                      Request("gattc_discover_services", <<conn_handle>>, FALSE) >>
    /\ (\E i \in 1..Len(req) : req[i].fn = "gattc_discover_characteristics")
         => /\ last = "SERVICE_DONE"
            /\ central.conn_handle # NONE
            /\ sess.svc
            /\ ~sess.dry
            /\ req = << Request("gattc_discover_characteristics",
                                <<central.conn_handle, central.start_handle,
                                  central.end_handle>>, FALSE) >>

\* C19: the Central holds at most one session: whenever a connect event sets
\* the session handle, the session handle, the service span and both
\* characteristic handles were unset immediately before.
C19_OneSessionAtATime ==
    [][ (last' = "CONNECT" /\ req' # <<>>)
          => /\ central.conn_handle = NONE
             /\ central.start_handle = NONE
             /\ central.end_handle = NONE
             /\ central.rx_handle = NONE
             /\ central.tx_handle = NONE ]_vars

\* C20: once a handler was registered with on_notify(), in that session and
\* in every later one, a notify event for the current session handle and the
\* recorded TX handle invokes that handler exactly once with the event's
\* payload, and a notify event for another session handle or value handle
\* invokes no handler and changes nothing.
C20_NotifyReachesHandler ==
    sess.handler # NONE
      => \A conn_handle \in ConnHandles, value_handle \in AttrHandles,
            notify_data \in Payloads :
            LET o == BLECentral_irq_NOTIFY(central, conn_handle, value_handle,
                                           notify_data)
            IN  /\ o.c = central
                /\ o.req = <<>>
                /\ o.calls =
                     IF conn_handle = central.conn_handle
                        /\ value_handle = central.tx_handle
                     THEN << Invoke(sess.handler, <<notify_data>>) >>
                     ELSE <<>>

----------------------------------------------------------------------------
(* Properties of the Peripheral *)

C7_BufferFifoLossless ==
    stream.consumed \o periph.rx_buffer = stream.accepted

\* C7 witness: after two accepted writes a read has taken a proper prefix
C7_Witness ==
    /\ last = "read"
    /\ Len(stream.consumed) > 0
    /\ Len(periph.rx_buffer) > 0
    /\ Len(stream.accepted) = MaxBytes

\* C8: read(n) with n >= 0 returns the first min(n, len(B)) bytes of the
\* buffer B and leaves the remaining suffix (read(0) returns nothing and
\* leaves B intact); read() returns all of B and leaves the buffer empty;
\* any() is the buffer length.
C8_ReadPrefix ==
    /\ \A n \in 0..MaxRead :
          LET o == BLEperipheral_read(periph, n)
              k == Min(n, Len(periph.rx_buffer))
          IN  /\ o.ret = SubSeq(periph.rx_buffer, 1, k)
              /\ o.c.rx_buffer = SubSeq(periph.rx_buffer, k + 1,
                                        Len(periph.rx_buffer))
    /\ LET o == BLEperipheral_read(periph, NONE)
       IN  /\ o.ret = periph.rx_buffer
           /\ o.c.rx_buffer = <<>>
    /\ BLEperipheral_any(periph).ret = Len(periph.rx_buffer)

\* C15: after a Peripheral disconnect event the reported handle is not in the
\* registry, the other handles and the buffer are unchanged, and exactly one
\* advertise request was issued, whether or not the handle was registered.
C15_DisconnectEventReadvertises ==
    /\ \A conn_handle \in ConnHandles :
          LET o == BLEperipheral_irq_CENTRAL_DISCONNECT(periph, conn_handle)
          IN  /\ o.c = [periph EXCEPT !.connections = @ \ {conn_handle}]
              /\ Len(o.req) = 1
              /\ o.req[1].fn = "gap_advertise"
              /\ o.calls = <<>>
    /\ last = "CENTRAL_DISCONNECT"
         => /\ Len(req) = 1
            /\ req[1] = BLEperipheral_advertise(periph)

\* C15 witness: a disconnect event left the registry empty and one advertise
\* request was issued, while bytes wait in the buffer
C15_Witness ==
    /\ last = "CENTRAL_DISCONNECT"
    /\ periph.connections = {}
    /\ stream.live = {}
    /\ periph.rx_buffer # <<>>
    /\ Len(req) = 1

C17_InboundWriteGuarded ==
    /\ \A conn_handle \in ConnHandles, value_handle \in AttrHandles,
          value \in Payloads :
          LET o == BLEperipheral_irq_GATTS_WRITE(periph, conn_handle,
                                                value_handle, value)
              new == [periph EXCEPT !.rx_buffer = @ \o value]
          IN  IF conn_handle \in periph.connections
                 /\ value_handle = periph.rx_handle
              THEN /\ o.c = new
                   /\ o.calls = IF periph.handler = NoHandler THEN <<>>
                                ELSE << InvokeAt(periph.handler, <<>>, new) >>
              ELSE /\ o.c = periph
                   /\ o.calls = <<>>
                   /\ o.req = <<>>
    /\ (last = "GATTS_WRITE" /\ calls # <<>>)
         => /\ Len(calls) = 1
            /\ calls[1].at = periph

\* C17 witness: the receive handler was invoked after a second accepted write
\* had been appended behind bytes already waiting
C17_Witness ==
    /\ last = "GATTS_WRITE"
    /\ Len(calls) = 1
    /\ calls[1].args = <<>>
    /\ periph.rx_buffer = <<"4", "2", "3">>

----------------------------------------------------------------------------
(* End-to-end property *)

\* C9: once the Central has scanned, connected, completed discovery and
\* registered its notify handler, every payload X the Peripheral writes from
\* then on is eventually handed to that handler; the handler is invoked at
\* most once for a write, and what it receives is byte-identical to what was
\* written.
C9_EndToEndDelivery ==
    /\ \A i \in 1..MaxWrites :
          (link.ready0 # NONE /\ link.ready0 < i /\ i <= Len(link.sent))
            ~> (\E j \in 1..Len(link.got) : link.got[j].id = i)
    /\ [](\A j, k \in 1..Len(link.got) :
            link.got[j].id = link.got[k].id => j = k)
    /\ [](\A j \in 1..Len(link.got) :
            /\ link.got[j].id \in 1..Len(link.sent)
            /\ link.got[j].data = link.sent[link.got[j].id])

\* C9 witness: the handler has received, once each and in order, the two
\* payloads the Peripheral wrote after the handler was registered
C9_Witness ==
    /\ link.ready0 = 0
    /\ Len(link.sent) = MaxWrites
    /\ link.got = [ i \in 1..MaxWrites |-> [id |-> i, data |-> link.sent[i]] ]
    /\ link.sent[1] # link.sent[2]
    /\ link.toC = <<>>

----------------------------------------------------------------------------
(* Discoverability property *)

\* C21: over a transport that stops advertising when a central connects and
\* resumes only on an advertise request, the Peripheral is advertising in
\* every reachable state, also while the registry holds sessions, so that an
\* additional central can always connect.
\* (A state counts once the Peripheral has handled the events delivered to
\* it: while an event is still in flight the Peripheral has not acted yet.)
C21_StaysDiscoverable ==
    link.toP = <<>> => link.adv

====
